---- MODULE Spec2Model ----
(***************************************************************************)
(* Model of oidbt_torrent.torrent.Torrent: schema validation, format       *)
(* classification, info hashes, the data_dict setter, the size aggregator  *)
(* and the magnet URI builder.                                             *)
(*                                                                         *)
(* Decoded bencode values are tagged records: [int |-> n], [bytes |-> s]   *)
(* (s a sequence of characters), [list |-> seq], [map |-> f] (f a function *)
(* from key names to values).  Python's None is [none |-> TRUE].  Map keys *)
(* are always byte strings, as bdecode produces them.                      *)
(***************************************************************************)
EXTENDS Integers, Sequences, FiniteSets, TLC

VARIABLES phase, file, data_dict, data, data_bytes, info, op, args, err, ret

vars == <<phase, file, data_dict, data, data_bytes, info, op, args, err, ret>>

-----------------------------------------------------------------------------
(* Bounds of the model *)

MaxLen == 2

MaxFiles == 2

MaxTiers == 2

-----------------------------------------------------------------------------
(* The value model *)

None == [none |-> TRUE]

IntV(n) == [int |-> n]

BytesV(s) == [bytes |-> s]

ListV(q) == [list |-> q]

MapV(f) == [map |-> f]

IsNone(v) == DOMAIN v = {"none"}

IsInt(v) == DOMAIN v = {"int"}

IsBytes(v) == DOMAIN v = {"bytes"}

IsList(v) == DOMAIN v = {"list"}

IsMap(v) == DOMAIN v = {"map"}

EmptyMap == [k \in {} |-> None]

Entry(k, v) == IF IsNone(v) THEN EmptyMap ELSE [x \in {k} |-> v]

Get(m, k) == IF k \in DOMAIN m THEN m[k] ELSE None

Range(q) == {q[i] : i \in 1..Len(q)}

-----------------------------------------------------------------------------
(* Shape validation: the pydantic models Torrent.Data and Torrent.Data.Info *)

IsListOfBytes(v) == IsList(v) /\ \A x \in Range(v.list) : IsBytes(x)

IsFile(v) ==
    /\ IsMap(v)
    /\ \A k \in DOMAIN v.map :
          IsBytes(v.map[k]) \/ IsInt(v.map[k]) \/ IsListOfBytes(v.map[k])

RECURSIVE IsFileTree(_)
IsFileTree(v) ==
    /\ IsMap(v)
    /\ \A k \in DOMAIN v.map : IsFileTree(v.map[k]) \/ IsFile(v.map[k])

OptBytes(v) == IsNone(v) \/ IsBytes(v)

OptInt(v) == IsNone(v) \/ IsInt(v)

InfoValid(m) ==
    /\ "name" \in DOMAIN m /\ IsBytes(m["name"])
    /\ "piece length" \in DOMAIN m /\ IsInt(m["piece length"])
    /\ OptBytes(Get(m, "source"))
    /\ OptInt(Get(m, "length"))
    /\ LET f == Get(m, "files")
       IN  IsNone(f) \/ (IsList(f) /\ \A x \in Range(f.list) : IsFile(x))
    /\ OptBytes(Get(m, "pieces"))
    /\ LET t == Get(m, "file tree") IN IsNone(t) \/ IsFileTree(t)
    /\ OptInt(Get(m, "meta version"))

ShapeValid(m) ==
    /\ OptBytes(Get(m, "announce"))
    /\ LET a == Get(m, "announce-list")
       IN  IsNone(a) \/ (IsList(a) /\ \A t \in Range(a.list) : IsListOfBytes(t))
    /\ OptBytes(Get(m, "comment"))
    /\ OptBytes(Get(m, "created by"))
    /\ OptInt(Get(m, "creation date"))
    /\ "info" \in DOMAIN m /\ IsMap(m["info"]) /\ InfoValid(m["info"].map)
    /\ LET u == Get(m, "url-list")
       IN  IsNone(u) \/ IsBytes(u) \/ IsListOfBytes(u)
    /\ LET p == Get(m, "piece layers")
       IN  IsNone(p) \/ (IsMap(p) /\ \A k \in DOMAIN p.map : IsBytes(p.map[k]))

(* The typed record: fields are read through their aliases, an absent      *)
(* optional field becomes None.                                            *)
InfoModel(m) ==
    [name          |-> m["name"],
     piece_length  |-> m["piece length"],
     source        |-> Get(m, "source"),
     length        |-> Get(m, "length"),
     files         |-> Get(m, "files"),
     pieces        |-> Get(m, "pieces"),
     file_tree     |-> Get(m, "file tree"),
     meta_version  |-> Get(m, "meta version")]

Data(m) ==
    [announce      |-> Get(m, "announce"),
     announce_list |-> Get(m, "announce-list"),
     comment       |-> Get(m, "comment"),
     created_by    |-> Get(m, "created by"),
     creation_date |-> Get(m, "creation date"),
     info          |-> InfoModel(m["info"].map),
     url_list      |-> Get(m, "url-list"),
     piece_layers  |-> Get(m, "piece layers")]

-----------------------------------------------------------------------------
(* bencode: the canonical encoding, as a sequence of characters/tokens *)

Digits == <<"0", "1", "2", "3", "4", "5", "6", "7", "8", "9">>

RECURSIVE IntStr(_)
IntStr(n) == IF n < 10 THEN <<Digits[n + 1]>>
             ELSE IntStr(n \div 10) \o <<Digits[(n % 10) + 1]>>

(* Every key name of the model with its byte length, in sorted byte order *)
KeyOrder ==
    << [key |-> "", len |-> 0], [key |-> "a", len |-> 1],
       [key |-> "announce", len |-> 8], [key |-> "announce-list", len |-> 13],
       [key |-> "b", len |-> 1], [key |-> "comment", len |-> 7],
       [key |-> "created by", len |-> 10], [key |-> "creation date", len |-> 13],
       [key |-> "d", len |-> 1], [key |-> "file tree", len |-> 9],
       [key |-> "files", len |-> 5], [key |-> "info", len |-> 4],
       [key |-> "length", len |-> 6], [key |-> "meta version", len |-> 12],
       [key |-> "name", len |-> 4], [key |-> "path", len |-> 4],
       [key |-> "piece layers", len |-> 12], [key |-> "piece length", len |-> 12],
       [key |-> "pieces", len |-> 6], [key |-> "r", len |-> 1],
       [key |-> "source", len |-> 6], [key |-> "url-list", len |-> 8] >>

RECURSIVE bencode(_)
RECURSIVE EncList(_, _)
RECURSIVE EncMap(_, _)

EncList(q, i) ==
    IF i > Len(q) THEN <<>> ELSE bencode(q[i]) \o EncList(q, i + 1)

EncMap(m, i) ==
    IF i > Len(KeyOrder) THEN <<>>
    ELSE LET e == KeyOrder[i]
         IN  (IF e.key \in DOMAIN m
              THEN IntStr(e.len) \o <<":", e.key>> \o bencode(m[e.key])
              ELSE <<>>) \o EncMap(m, i + 1)

bencode(v) ==
    IF IsInt(v) THEN <<"i">> \o IntStr(v.int) \o <<"e">>
    ELSE IF IsBytes(v) THEN IntStr(Len(v.bytes)) \o <<":">> \o v.bytes
    ELSE IF IsList(v) THEN <<"l">> \o EncList(v.list, 1) \o <<"e">>
    ELSE <<"d">> \o EncMap(v.map, 1) \o <<"e">>

-----------------------------------------------------------------------------
(* Format classifier and hash engine *)

(* "unknown" stands for the ValueError of the default case *)
get_torrent_format(d) ==
    IF IsNone(d.info.meta_version) THEN "v1"
    ELSE IF d.info.meta_version = IntV(2)
         THEN (IF IsNone(d.info.files) THEN "v2" ELSE "hybrid")
         ELSE "unknown"

get_hash_v1(dd) == [alg |-> "sha1", msg |-> bencode(dd.map["info"])]

get_hash_v2(dd) == [alg |-> "sha256", msg |-> bencode(dd.map["info"])]

Info(dd, fmt) ==
    [format  |-> fmt,
     hash_v1 |-> IF fmt \in {"v1", "hybrid"} THEN get_hash_v1(dd) ELSE None,
     hash_v2 |-> IF fmt \in {"v2", "hybrid"} THEN get_hash_v2(dd) ELSE None]

-----------------------------------------------------------------------------
(* Format invariants checked by the constructor after _refresh *)

(* Mutant: the V2 and hybrid cases forget the top-level piece layers *)
MissingRequiredNoLayers(fmt, d) ==
    LET noV1 == IsNone(d.info.pieces)
                \/ (IsNone(d.info.files) /\ IsNone(d.info.length))
        noV2 == IsNone(d.info.file_tree)
                \/ IsNone(d.info.meta_version)
    IN  CASE fmt = "v1"     -> noV1
          [] fmt = "v2"     -> noV2
          [] fmt = "hybrid" -> noV1 \/ noV2
          [] OTHER          -> FALSE

MissingRequired(fmt, d) ==
    LET noV1 == IsNone(d.info.pieces)
                \/ (IsNone(d.info.files) /\ IsNone(d.info.length))
        noV2 == IsNone(d.info.file_tree)
                \/ IsNone(d.info.meta_version)
                \/ IsNone(d.piece_layers)
    IN  CASE fmt = "v1"     -> noV1
          [] fmt = "v2"     -> noV2
          [] fmt = "hybrid" -> noV1 \/ noV2
          [] OTHER          -> FALSE

(* Mutant: the files/length check sits in the v1 case only *)
FilesAndLengthV1Only(d) ==
    ~IsNone(d.info.files) /\ ~IsNone(d.info.length) /\ IsNone(d.info.meta_version)

FilesAndLength(d) == ~IsNone(d.info.files) /\ ~IsNone(d.info.length)

-----------------------------------------------------------------------------
(* Size aggregator *)

RECURSIVE get_file_tree_xl(_)
RECURSIVE SumItems(_, _)

(* Mutant: the walk adds 'length' entries but does not descend into maps *)
ItemXlNoDescent(k, v) ==
    IF k = "length" /\ IsInt(v) THEN v.int ELSE 0

(* One iteration of the loop over point.items() *)
ItemXl(k, v) ==
    IF k = "length" /\ IsInt(v) THEN v.int
    ELSE IF IsMap(v) THEN get_file_tree_xl(v)
    ELSE 0

SumItems(m, ks) ==
    IF ks = {} THEN 0
    ELSE LET k == CHOOSE x \in ks : TRUE
         IN  ItemXl(k, m[k]) + SumItems(m, ks \ {k})

(* _get_file_tree_xl(point) for a given point *)
get_file_tree_xl(point) == SumItems(point.map, DOMAIN point.map)

(* _get_file_tree_xl() without a point: None when there is no file_tree *)
get_file_tree_xl_root(d) ==
    IF IsNone(d.info.file_tree) THEN None
    ELSE IntV(get_file_tree_xl(d.info.file_tree))

RECURSIVE SumFiles(_, _)
SumFiles(q, i) ==
    IF i > Len(q) THEN 0 ELSE get_file_tree_xl(q[i]) + SumFiles(q, i + 1)

get_files_xl(d) ==
    IF ~IsNone(d.info.files) THEN IntV(SumFiles(d.info.files.list, 1))
    ELSE d.info.length

(* Python truth value of an int or None *)
Truthy(v) == ~IsNone(v) /\ v.int # 0

(* The value of "a or b"; None makes the assertion of get_xl fail *)
get_xl(d) ==
    LET a == get_file_tree_xl_root(d)
    IN  IF Truthy(a) THEN a ELSE get_files_xl(d)

-----------------------------------------------------------------------------
(* Magnet URI builder: the URI is a sequence of characters/tokens *)

(* urllib.parse.quote with its default safe="/" *)
QuoteChar(c) ==
    CASE c = ":" -> <<"%", "3", "A">>
      [] c = "&" -> <<"%", "2", "6">>
      [] c = "=" -> <<"%", "3", "D">>
      [] OTHER   -> <<c>>

RECURSIVE Quote(_)
Quote(b) == IF b = <<>> THEN <<>> ELSE QuoteChar(Head(b)) \o Quote(Tail(b))

hexdigest(h) == <<h.alg, "(">> \o h.msg \o <<")">>

RECURSIVE Join(_)
Join(ps) ==
    IF ps = <<>> THEN <<>>
    ELSE IF Len(ps) = 1 THEN ps[1]
    ELSE ps[1] \o <<"&">> \o Join(Tail(ps))

RECURSIVE Chain(_)
Chain(tiers) == IF tiers = <<>> THEN <<>> ELSE Head(tiers).list \o Chain(Tail(tiers))

XtPieces(inf) ==
    CASE inf.format = "v1" -> << <<"xt=urn:btih:">> \o hexdigest(inf.hash_v1) >>
      [] inf.format = "v2" -> << <<"xt=urn:btmh:1220">> \o hexdigest(inf.hash_v2) >>
      [] OTHER -> << <<"xt=urn:btih:">> \o hexdigest(inf.hash_v1),
                     <<"xt=urn:btmh:1220">> \o hexdigest(inf.hash_v2) >>

DnPieces(d, f) ==
    IF f.dn THEN << <<"dn=">> \o Quote(d.info.name.bytes) >> ELSE <<>>

XlPieces(d, f) ==
    IF f.xl THEN << <<"xl=">> \o IntStr(get_xl(d).int) >> ELSE <<>>

WsPieces(d, f) ==
    IF f.ws /\ ~IsNone(d.url_list)
    THEN LET urls == IF IsList(d.url_list) THEN d.url_list.list ELSE <<d.url_list>>
         IN  [i \in 1..Len(urls) |-> <<"ws=">> \o Quote(urls[i].bytes)]
    ELSE <<>>

(* The slice q[:1] *)
FirstOnly(q) == IF q = <<>> THEN <<>> ELSE <<q[1]>>

(* Python truth value of a list or None *)
TruthyList(v) == ~IsNone(v) /\ v.list # <<>>

TrPieces(d, f) ==
    IF f.tr
    THEN LET announce_list ==
                 IF TruthyList(d.announce_list) THEN d.announce_list.list
                 ELSE IF IsNone(d.announce) THEN <<>>
                 ELSE << ListV(<<d.announce>>) >>
             kept == IF f.only_one_tr THEN FirstOnly(announce_list)
                     ELSE announce_list
             urls == Chain(kept)
         IN  [i \in 1..Len(urls) |-> <<"tr=">> \o Quote(urls[i].bytes)]
    ELSE <<>>

(* get_magnet raises when xl is asked for and get_xl's assertion fails *)
MagnetRaises(d, f) == f.xl /\ IsNone(get_xl(d))

(* Mutant: the trackers are appended before the web seeds *)
get_magnet_tr_first(d, inf, f) ==
    <<"magnet:?">>
    \o Join(XtPieces(inf) \o DnPieces(d, f) \o XlPieces(d, f)
            \o TrPieces(d, f) \o WsPieces(d, f))

get_magnet(d, inf, f) ==
    <<"magnet:?">>
    \o Join(XtPieces(inf) \o DnPieces(d, f) \o XlPieces(d, f)
            \o WsPieces(d, f) \o TrPieces(d, f))

-----------------------------------------------------------------------------
(* Inputs: decoded torrent files *)

Name1 == BytesV(<<"n", ":">>)

Pieces1 == BytesV(<<"p">>)

Layers1 == MapV([r |-> BytesV(<<"h">>)])

FileRec(n) == MapV([length |-> IntV(n), path |-> ListV(<<BytesV(<<"f">>)>>)])

Leaf(n) == MapV([length |-> IntV(n)])

TreeKeys == <<"a", "b", "d", "r">>

(* A v2 file tree with one file per length; every second file lies one     *)
(* directory deeper.                                                       *)
TreeEntry(i, n) ==
    IF i % 2 = 1 THEN MapV([k \in {""} |-> Leaf(n)])
    ELSE MapV([k \in {"d"} |-> MapV([j \in {""} |-> Leaf(n)])])

FileTreeOf(lens) ==
    MapV([k \in {TreeKeys[i] : i \in 1..Len(lens)} |->
            LET i == CHOOSE j \in 1..Len(lens) : TreeKeys[j] = k
            IN  TreeEntry(i, lens[i])])

FilesOf(lens) == ListV([i \in 1..Len(lens) |-> FileRec(lens[i])])

(* A node that is neither a File nor a File_tree: an integer and a map     *)
(* side by side.                                                           *)
MixedTree == MapV([a |-> MapV([length |-> IntV(1), d |-> Leaf(1)])])

InfoMap(name, length, files, pieces, tree, meta) ==
    MapV(Entry("name", name) @@ Entry("piece length", IntV(16))
         @@ Entry("length", length) @@ Entry("files", files)
         @@ Entry("pieces", pieces) @@ Entry("file tree", tree)
         @@ Entry("meta version", meta))

Top(announce, alist, inf, urls, layers) ==
    MapV(Entry("announce", announce) @@ Entry("announce-list", alist)
         @@ Entry("info", inf) @@ Entry("url-list", urls)
         @@ Entry("piece layers", layers))

NotAMap == ListV(<<IntV(1)>>)

LifeInputs ==
    {NotAMap, Top(None, None, InfoMap(None, IntV(1), None, Pieces1, None, None), None, None)}
    \cup
    { Top(None, None, InfoMap(Name1, length, files, pieces, tree, meta), None, layers) :
        length \in {None, IntV(MaxLen)},
        files \in {None, FilesOf(<<1>>)},
        pieces \in {None, Pieces1},
        tree \in {None, FileTreeOf(<<MaxLen>>)},
        meta \in {None, IntV(2), IntV(3)},
        layers \in {None, Layers1} }

(* Lists of at most MaxFiles file lengths, each at most MaxLen *)
LenSeqs == UNION {[1..n -> 0..MaxLen] : n \in 0..MaxFiles}

U1 == BytesV(<<"u", ":", "/">>)

U2 == BytesV(<<"w", "&", "=">>)

Tiers == {ListV(<<>>), ListV(<<U1>>), ListV(<<U2>>), ListV(<<U2, U1>>)}

(* announce-list values: at most MaxTiers tiers *)
AnnounceLists == {ListV(q) : q \in UNION {[1..n -> Tiers] : n \in 0..MaxTiers}}

UrlLists == {None, U1, ListV(<<>>), ListV(<<U2, U1>>)}

(* Inputs that vary the sizes: v1 single and multi file, v2, hybrid *)
XlInputs ==
    LET trees == {None, MixedTree} \cup {FileTreeOf(l) : l \in LenSeqs}
        lists == {FilesOf(l) : l \in LenSeqs}
        sizes == {<<None, t>> : t \in trees}
                 \cup {<<f, None>> : f \in lists}
                 \cup {<<f, t>> : f \in {FilesOf(<<>>), FilesOf(<<1>>)}, t \in trees}
    IN  { Top(None, None, InfoMap(Name1, length, sz[1], Pieces1, sz[2], meta),
              None, Layers1) :
            length \in {None, IntV(0), IntV(MaxLen)},
            sz \in sizes,
            meta \in {None, IntV(2)} }

(* Inputs that vary the trackers and web seeds, one per format *)
MagnetInputs ==
    LET tree  == FileTreeOf(<<1, MaxLen>>)
        infos == { InfoMap(Name1, IntV(MaxLen), None, Pieces1, None, None),
                   InfoMap(Name1, None, None, None, tree, IntV(2)),
                   InfoMap(Name1, None, FilesOf(<<1>>), Pieces1, tree, IntV(2)) }
    IN  { Top(announce, alist, inf, urls, Layers1) :
            announce \in {None, U2},
            alist \in {None} \cup AnnounceLists,
            inf \in infos,
            urls \in UrlLists }

QueryInputs == XlInputs \cup MagnetInputs

(* Values given to the data_dict setter: one of each kind the setter distinguishes, *)
(* valid and invalid.                                                      *)
SetterInputs ==
    LET T(length, files, pieces, tree, meta, layers) ==
            Top(None, None, InfoMap(Name1, length, files, pieces, tree, meta),
                None, layers)
        tree == FileTreeOf(<<MaxLen>>)
    IN  { NotAMap,
          Top(None, None, InfoMap(None, IntV(1), None, Pieces1, None, None), None, None),
          T(IntV(MaxLen), None, Pieces1, None, None, None),
          T(None, FilesOf(<<1>>), Pieces1, None, None, None),
          T(None, None, None, tree, IntV(2), Layers1),
          T(None, FilesOf(<<1>>), Pieces1, tree, IntV(2), Layers1),
          T(IntV(MaxLen), FilesOf(<<1>>), Pieces1, None, None, None),
          T(IntV(MaxLen), None, None, None, None, None),
          T(None, None, None, tree, IntV(2), None),
          T(IntV(MaxLen), None, Pieces1, None, IntV(3), None) }

-----------------------------------------------------------------------------
(* The instance *)

InitWith(S) ==
    /\ file \in S
    /\ phase = "new"
    /\ data_dict = None
    /\ data = None
    /\ data_bytes = <<>>
    /\ info = None
    /\ op = "none"
    /\ args = None
    /\ err = "none"
    /\ ret = None

Init == InitWith(LifeInputs)

(* Torrent.__init__ on the decoded value of the file's bytes.  The check  *)
(* that every top-level key is a byte string cannot fail on a decoded map  *)
(* and has no branch here.                                                 *)
Construct ==
    /\ phase = "new"
    /\ data_dict' = file
    /\ file' = None
    /\ op' = "construct"
    /\ UNCHANGED <<args, ret>>
    /\ IF ~IsMap(file)
       THEN /\ phase' = "failed" /\ err' = "Parse_error"
            /\ data_bytes' = bencode(file)
            /\ UNCHANGED <<data, info>>
       ELSE IF ~ShapeValid(file.map)
       THEN /\ phase' = "failed" /\ err' = "Parse_error"
            /\ data_bytes' = bencode(file)
            /\ UNCHANGED <<data, info>>
       ELSE LET d   == Data(file.map)
                fmt == get_torrent_format(d)
            IN  /\ data' = d
                /\ data_bytes' = bencode(file)
                /\ IF fmt = "unknown"
                   THEN /\ phase' = "failed" /\ err' = "ValueError"
                        /\ UNCHANGED info
                   ELSE /\ info' = Info(file, fmt)
                        /\ IF MissingRequired(fmt, d) \/ FilesAndLength(d)
                           THEN phase' = "failed" /\ err' = "Parse_error"
                           ELSE phase' = "ready" /\ err' = "none"

(* The data_dict setter: assign, then _refresh *)
SetDataDict(value) ==
    /\ phase = "ready"
    /\ data_dict' = value
    /\ op' = "set"
    /\ ret' = None
    /\ UNCHANGED <<phase, file, args>>
    /\ IF ~IsMap(value)
       THEN /\ err' = "AttributeError"
            /\ UNCHANGED <<data, data_bytes, info>>
       ELSE IF ~ShapeValid(value.map)
       THEN /\ err' = "Parse_error"
            /\ UNCHANGED <<data, data_bytes, info>>
       ELSE LET d   == Data(value.map)
                fmt == get_torrent_format(d)
            IN  /\ data' = d
                /\ data_bytes' = bencode(value)
                /\ IF fmt = "unknown"
                   THEN err' = "ValueError" /\ UNCHANGED info
                   ELSE err' = "none" /\ info' = Info(value, fmt)

Assign == \E value \in SetterInputs : SetDataDict(value)

Next == Construct \/ Assign

Spec == Init /\ [][Next]_vars

-----------------------------------------------------------------------------
(* Queries on a constructed instance.  They leave the instance as it is,   *)
(* so one query on the fresh instance stands for any later one.            *)

Flags == [dn : BOOLEAN, xl : BOOLEAN, ws : BOOLEAN, tr : BOOLEAN,
          only_one_tr : BOOLEAN]

GetXl ==
    /\ phase = "ready" /\ op = "construct"
    /\ op' = "get_xl"
    /\ args' = None
    /\ IF IsNone(get_xl(data))
       THEN err' = "AssertionError" /\ ret' = None
       ELSE err' = "none" /\ ret' = [xl |-> get_xl(data).int]
    /\ UNCHANGED <<phase, file, data_dict, data, data_bytes, info>>

GetMagnet(f) ==
    /\ phase = "ready" /\ op = "construct"
    /\ op' = "get_magnet"
    /\ args' = f
    /\ IF MagnetRaises(data, f)
       THEN err' = "AssertionError" /\ ret' = None
       ELSE err' = "none" /\ ret' = [magnet |-> get_magnet(data, info, f)]
    /\ UNCHANGED <<phase, file, data_dict, data, data_bytes, info>>

Magnet == \E f \in Flags : GetMagnet(f)

InitQuery == InitWith(QueryInputs)

NextQuery == Construct \/ GetXl \/ Magnet

SpecQuery == InitQuery /\ [][NextQuery]_vars

-----------------------------------------------------------------------------
(* Claims about construction and the data_dict setter, checked under Spec *)

RawInfo == data_dict.map["info"].map

RawHasInfo == IsMap(data_dict) /\ "info" \in DOMAIN data_dict.map
              /\ IsMap(data_dict.map["info"])

(* C1: an input whose info has both 'files' and 'length' never constructs, *)
(* whatever its format; a constructed instance never has both.             *)
C1_FilesLengthRejected ==
    op = "construct" =>
       /\ (RawHasInfo /\ {"files", "length"} \subseteq DOMAIN RawInfo)
             => phase = "failed"
       /\ phase = "ready"
             => ~(~IsNone(data.info.files) /\ ~IsNone(data.info.length))

(* C1 witness: a hybrid input with every required field, rejected only     *)
(* because it carries both 'files' and 'length'.                           *)
C1_Witness ==
    /\ op = "construct" /\ phase = "failed" /\ err = "Parse_error"
    /\ RawHasInfo /\ {"files", "length"} \subseteq DOMAIN RawInfo
    /\ ~IsNone(info) /\ info.format = "hybrid"
    /\ {"pieces", "file tree"} \subseteq DOMAIN RawInfo
    /\ "piece layers" \in DOMAIN data_dict.map

(* C2: an input with a 'meta version' other than 2 fails construction with *)
(* Parse_error and is never classified as V1.                              *)
C2_UnknownMetaIsParseError ==
    (op = "construct" /\ RawHasInfo /\ "meta version" \in DOMAIN RawInfo
       /\ RawInfo["meta version"] # IntV(2))
    => /\ phase = "failed"
       /\ err = "Parse_error"
       /\ (IsNone(info) \/ info.format # "v1")

(* C3: construction succeeds only with the required fields of the detected *)
(* format; an input of a detected format that misses one fails with        *)
(* Parse_error.                                                            *)
C3_RequiredFields ==
    (op = "construct" /\ ~IsNone(info)) =>
       LET hasV1 == "pieces" \in DOMAIN RawInfo
                    /\ ("files" \in DOMAIN RawInfo \/ "length" \in DOMAIN RawInfo)
           hasV2 == "file tree" \in DOMAIN RawInfo
                    /\ "meta version" \in DOMAIN RawInfo
                    /\ "piece layers" \in DOMAIN data_dict.map
           has   == CASE info.format = "v1" -> hasV1
                      [] info.format = "v2" -> hasV2
                      [] OTHER -> hasV1 /\ hasV2
       IN  /\ phase = "ready" => has
           /\ ~has => (phase = "failed" /\ err = "Parse_error")

(* C3 witness: a V2 input without top-level 'piece layers' is rejected     *)
C3_Witness ==
    /\ op = "construct" /\ phase = "failed" /\ err = "Parse_error"
    /\ ~IsNone(info) /\ info.format = "v2"
    /\ "file tree" \in DOMAIN RawInfo
    /\ "piece layers" \notin DOMAIN data_dict.map

(* C4: whenever construction or a data_dict assignment has returned        *)
(* normally, the instance is fully validated and its derived fields are    *)
(* those of the current raw structure.                                     *)
C4_AlwaysValidated ==
    (phase = "ready" /\ err = "none") =>
       /\ IsMap(data_dict) /\ ShapeValid(data_dict.map)
       /\ data = Data(data_dict.map)
       /\ data_bytes = bencode(data_dict)
       /\ get_torrent_format(data) # "unknown"
       /\ info = Info(data_dict, get_torrent_format(data))
       /\ ~MissingRequired(info.format, data)
       /\ ~FilesAndLength(data)

(* C10: a data_dict assignment that raises leaves data_dict, data,         *)
(* data_bytes and info as they were.                                       *)
C10_FailedAssignKeepsState ==
    [][(op' = "set" /\ err' \in {"Parse_error", "ValueError"})
          => (data_dict' = data_dict /\ data' = data
              /\ data_bytes' = data_bytes /\ info' = info)]_vars

-----------------------------------------------------------------------------
(* Claims about the size aggregator and the magnet builder, checked under  *)
(* SpecQuery                                                               *)

RECURSIVE SumSeq(_)
SumSeq(q) == IF q = <<>> THEN 0 ELSE Head(q) + SumSeq(Tail(q))

(* Positions that end a parameter's predecessor: "magnet:?" and every "&" *)
Seps(m) == {1} \cup {i \in 2..Len(m) : m[i] = "&"}

(* The parameters of a magnet URI: what follows "magnet:?", split at "&" *)
Params(m) ==
    LET seps   == Seps(m)
        nth(k) == CHOOSE i \in seps : Cardinality({j \in seps : j < i}) = k - 1
    IN  [k \in 1..Cardinality(seps) |->
            SubSeq(m, nth(k) + 1,
                   IF k = Cardinality(seps) THEN Len(m) ELSE nth(k + 1) - 1)]

OfKind(ps, k) == SelectSeq(ps, LAMBDA p : p # <<>> /\ p[1] = k)

Bodies(ps) == [i \in 1..Len(ps) |-> Tail(ps[i])]

Rank(k) ==
    CASE k = "xt=urn:btih:"     -> 1
      [] k = "xt=urn:btmh:1220" -> 2
      [] k = "dn="              -> 3
      [] k = "xl="              -> 4
      [] k = "ws="              -> 5
      [] k = "tr="              -> 6
      [] OTHER                  -> 0

QuotedAll(urls) == [i \in 1..Len(urls) |-> Quote(urls[i].bytes)]

Returned(o) == op = o /\ err = "none"

(* C5: with a file_tree, get_xl and the xl= parameter are the file_tree    *)
(* total, also when it is zero or differs from the v1 total; the v1 total  *)
(* is used only without a file_tree.                                       *)
C5_PrefersV2Total ==
    LET tree == data.info.file_tree
    IN  /\ (op = "get_xl" /\ ~IsNone(tree))
              => (err = "none" /\ ret = [xl |-> get_file_tree_xl(tree)])
        /\ (op = "get_magnet" /\ args.xl /\ ~IsNone(tree))
              => (err = "none"
                  /\ Bodies(OfKind(Params(ret.magnet), "xl="))
                       = << IntStr(get_file_tree_xl(tree)) >>)
        /\ (Returned("get_xl") /\ IsNone(tree))
              => ret = [xl |-> get_files_xl(data).int]

(* C6: on a constructed instance get_xl returns an integer and             *)
(* get_magnet(xl=True) does not fail.                                      *)
C6_XlNeverFails ==
    /\ op = "get_xl" => (err = "none" /\ ret.xl \in Nat)
    /\ op = "get_magnet" => err = "none"

(* C7: the magnet URI is "magnet:?" and the parameters joined with "&", in *)
(* the order xt (btih, then btmh), dn, xl, ws, tr; the xt parameters are   *)
(* those of the format, a disabled group is absent, ws follows url_list.   *)
C7_MagnetOrder ==
    Returned("get_magnet") =>
       LET m    == ret.magnet
           ps   == Params(m)
           n(k) == Len(OfKind(ps, k))
           urls == IF IsNone(data.url_list) THEN <<>>
                   ELSE IF IsList(data.url_list) THEN data.url_list.list
                   ELSE <<data.url_list>>
       IN  /\ m[1] = "magnet:?"
           /\ \A i \in 1..Len(ps) : ps[i] # <<>> /\ Rank(ps[i][1]) > 0
           /\ \A i \in 1..(Len(ps) - 1) : Rank(ps[i][1]) <= Rank(ps[i + 1][1])
           /\ n("xt=urn:btih:") = IF info.format \in {"v1", "hybrid"} THEN 1 ELSE 0
           /\ n("xt=urn:btmh:1220") = IF info.format \in {"v2", "hybrid"} THEN 1 ELSE 0
           /\ n("dn=") = IF args.dn THEN 1 ELSE 0
           /\ n("xl=") = IF args.xl THEN 1 ELSE 0
           /\ Bodies(OfKind(ps, "ws=")) = IF args.ws THEN QuotedAll(urls) ELSE <<>>
           /\ ~args.tr => n("tr=") = 0

(* C7 witness: a hybrid instance with two web seeds and two tracker tiers, *)
(* every group enabled                                                     *)
C7_Witness ==
    /\ Returned("get_magnet") /\ info.format = "hybrid"
    /\ args.dn /\ args.xl /\ args.ws /\ args.tr /\ ~args.only_one_tr
    /\ IsList(data.url_list) /\ Len(data.url_list.list) = 2
    /\ ~IsNone(data.announce_list) /\ Len(Chain(data.announce_list.list)) >= 2
    /\ Len(Params(ret.magnet)) >= 8

(* C8: the tr parameters are announce_list flattened tier by tier, or its  *)
(* first tier with only_one_tr; 'announce' is used only when announce_list *)
(* is absent; without tr there are none.                                   *)
C8_TrackersFromAnnounceList ==
    Returned("get_magnet") =>
       LET tiers == IF ~IsNone(data.announce_list) THEN data.announce_list.list
                    ELSE IF IsNone(data.announce) THEN <<>>
                    ELSE << ListV(<<data.announce>>) >>
           kept  == IF args.only_one_tr THEN FirstOnly(tiers) ELSE tiers
       IN  Bodies(OfKind(Params(ret.magnet), "tr="))
             = IF args.tr THEN QuotedAll(Chain(kept)) ELSE <<>>

RECURSIVE Nodes(_)
(* A map and every map below it *)
Nodes(v) ==
    IF IsMap(v) THEN {v} \cup UNION {Nodes(v.map[k]) : k \in DOMAIN v.map}
    ELSE {}

RECURSIVE SumSet(_)
SumSet(S) == IF S = {} THEN 0
             ELSE LET x == CHOOSE y \in S : TRUE
                  IN  get_file_tree_xl(x[2]) + SumSet(S \ {x})

LeafRule(node) ==
    IF "length" \in DOMAIN node.map /\ IsInt(node.map["length"])
    THEN get_file_tree_xl(node) = node.map["length"].int
    ELSE get_file_tree_xl(node)
           = SumSet({<<k, node.map[k]>> : k \in {j \in DOMAIN node.map : IsMap(node.map[j])}})

(* C9: in the walk of a validated file_tree or files entry, a node with an *)
(* integer 'length' contributes exactly that length and any other node the *)
(* sum of its map children; a file_tree or a files list of the lengths l   *)
(* totals the sum of l, and [100, 250, 0] totals 350.                      *)
C9_LeafWalk ==
    phase = "ready" =>
       LET tree  == data.info.file_tree
           files == data.info.files
       IN  /\ ~IsNone(tree) =>
                 /\ \A node \in Nodes(tree) : LeafRule(node)
                 /\ \A l \in LenSeqs :
                       tree = FileTreeOf(l) => get_file_tree_xl(tree) = SumSeq(l)
           /\ ~IsNone(files) =>
                 /\ \A node \in Range(files.list) : LeafRule(node)
                 /\ \A l \in LenSeqs :
                       files = FilesOf(l) => get_files_xl(data) = IntV(SumSeq(l))
           /\ (Returned("get_xl") /\ IsNone(tree) /\ ~IsNone(files))
                 => \A l \in LenSeqs : files = FilesOf(l) => ret.xl = SumSeq(l)
           /\ get_file_tree_xl(FileTreeOf(<<100, 250, 0>>)) = 350
           /\ SumFiles(FilesOf(<<100, 250, 0>>).list, 1) = 350

(* C9 witness: get_xl has returned the total of a file_tree whose second   *)
(* file lies in a sub-directory                                            *)
C9_Witness ==
    /\ Returned("get_xl") /\ ~IsNone(data.info.file_tree)
    /\ data.info.file_tree = FileTreeOf(<<1, MaxLen>>)
    /\ ret.xl = 1 + MaxLen

====
